---- MODULE Spec2Model ----
(***************************************************************************)
(* The library checkout engine of src/TestingFile.py: LibrarySystem over   *)
(* LibraryDatabase.  Users and items are the two dictionaries of the       *)
(* database, keyed by id; every engine operation is one action.            *)
(*                                                                         *)
(* Time is counted in ticks of half a day (TicksPerDay ticks per day), so  *)
(* that timedelta.days, which floors, differs from rounding up.  Money is  *)
(* counted in cents; the fine rates 0.50, 1.00 and 0.25 and every amount   *)
(* used here are multiples of 0.25, on which float arithmetic is exact.    *)
(***************************************************************************)
EXTENDS Integers, Sequences, FiniteSets, TLC

VARIABLES users, items, now, disk, last

vars == <<users, items, now, disk, last>>

(* ---------------------------------------------------------------- bounds *)

\* users and items the database holds together
MaxEntities == 3
\* the clock stops at this tick
MaxNow == 21
\* a fine balance is kept within this many quarter dollars
MaxFineQuarters == 12
\* a user's reserved_items list is kept within this length
MaxReserved == 2
\* the clock of the single-loan specification stops at this tick
MaxLoanNow == 52
\* users and items the database holds together under RestartSpec
MaxRestartEntities == 2

\* ids a caller may pass: the ids handed out so far and one that is not
UserIds == 1..(Cardinality(DOMAIN users) + 1)
ItemIds == 1..(Cardinality(DOMAIN items) + 1)

(* ------------------------------------------------------------ data model *)

\* Optional[...] = None (checked_out_to, due_date, dict.get of a missing key)
None == 0

\* resolution of the clock: ticks per day
TicksPerDay == 2

\* class names of the LibraryItem subclasses
Kinds == {"Book", "DVD", "Magazine"}

\* ItemStatus.value of each member
StatusValue(status) ==
    CASE status = "AVAILABLE" -> "available"
      [] status = "CHECKED_OUT" -> "checked_out"
      [] status = "RESERVED" -> "reserved"
      [] status = "MAINTENANCE" -> "maintenance"
      [] status = "LOST" -> "lost"

\* loan periods with those of DVD and Magazine exchanged
get_checkout_duration_swapped(kind) ==
    CASE kind = "Book" -> 21 * TicksPerDay
      [] kind = "DVD" -> 14 * TicksPerDay
      [] kind = "Magazine" -> 7 * TicksPerDay

\* get_checkout_duration of each subclass, in ticks
get_checkout_duration(kind) ==
    CASE kind = "Book" -> 21 * TicksPerDay
      [] kind = "DVD" -> 7 * TicksPerDay
      [] kind = "Magazine" -> 14 * TicksPerDay

\* get_daily_fine of each subclass, in cents
get_daily_fine(kind) ==
    CASE kind = "Book" -> 50
      [] kind = "DVD" -> 100
      [] kind = "Magazine" -> 25

\* members of UserRole
Roles == {"STUDENT", "FACULTY", "LIBRARIAN", "ADMIN"}

\* UserRole.value of each member
RoleValue(role) ==
    CASE role = "STUDENT" -> "student"
      [] role = "FACULTY" -> "faculty"
      [] role = "LIBRARIAN" -> "librarian"
      [] role = "ADMIN" -> "admin"

\* Person.__init__ and LibraryUser.__init__: the caller's name, email, phone
\* and role (one sample of the three texts), empty lists, no fines
NewUser(role) ==
    [name |-> "name", email |-> "email", phone |-> "phone", role |-> role,
     borrowed_items |-> <<>>, reserved_items |-> <<>>, fines |-> 0]

\* the attributes the constructor of each subclass adds (one sample of each;
\* publication_date is a datetime, in ticks)
KindFields(kind) ==
    CASE kind = "Book" ->
            [author |-> "author", isbn |-> "isbn", publisher |-> "publisher",
             publication_year |-> 2001, edition |-> "edition"]
      [] kind = "DVD" ->
            [director |-> "director", runtime |-> 90, release_year |-> 2001]
      [] kind = "Magazine" ->
            [publisher |-> "publisher", issue_number |-> "issue",
             publication_date |-> 3]

\* LibraryItem.__init__ through a subclass constructor
NewItem(kind) ==
    [kind |-> kind, title |-> "title", location |-> "location", cost |-> 1000,
     fields |-> KindFields(kind),
     status |-> "AVAILABLE", checked_out_to |-> None,
     due_date |-> None, reserved_by |-> <<>>]

\* an item whose status attribute the caller has set before adding it
Marked(item, status) == [item EXCEPT !.status = status]

(* --------------------------------------------------------- list helpers *)

\* x in list
In(x, s) == \E k \in 1..Len(s) : s[k] = x

\* a remove that drops nothing
Remove_nothing(s, x) == s

\* list.remove(x): drops the first occurrence of x (x is present)
RECURSIVE Remove(_, _)
Remove(s, x) ==
    IF s = <<>> THEN <<>>
    ELSE IF Head(s) = x THEN Tail(s)
    ELSE <<Head(s)>> \o Remove(Tail(s), x)

\* pop() in place of pop(0): the last entry goes
PopBack(s) == SubSeq(s, 1, Len(s) - 1)

\* the list left by list.pop(0)
PopFront(s) == Tail(s)

(* ----------------------------------------------------------- persistence *)

\* json null, the value json.dump writes for None
JsonNull == <<>>

\* datetime.isoformat(): the text of the timestamp
isoformat(t) == <<t>>

\* LibraryUser.to_dict over Person.to_dict
user_to_dict(id) ==
    [id |-> id, name |-> users[id].name, email |-> users[id].email,
     phone |-> users[id].phone, role |-> RoleValue(users[id].role),
     borrowed_items |-> users[id].borrowed_items,
     reserved_items |-> users[id].reserved_items, fines |-> users[id].fines]

\* the entries Book.to_dict, DVD.to_dict and Magazine.to_dict add
kind_to_dict(kind, fields) ==
    IF kind = "Magazine"
    THEN [fields EXCEPT !.publication_date = isoformat(@)]
    ELSE fields

\* LibraryItem.to_dict, updated by the to_dict of the subclass
item_to_dict(id) ==
    [id |-> id, title |-> items[id].title, location |-> items[id].location,
     cost |-> items[id].cost, status |-> StatusValue(items[id].status),
     checked_out_to |-> IF items[id].checked_out_to # None
                        THEN <<items[id].checked_out_to>> ELSE JsonNull,
     due_date |-> IF items[id].due_date # None
                  THEN isoformat(items[id].due_date) ELSE JsonNull,
     reserved_by |-> items[id].reserved_by, type |-> items[id].kind,
     fields |-> kind_to_dict(items[id].kind, items[id].fields)]

\* the document save_data writes: both dictionaries in insertion order
Document ==
    [users |-> [k \in 1..Cardinality(DOMAIN users) |-> user_to_dict(k)],
     items |-> [k \in 1..Cardinality(DOMAIN items) |-> item_to_dict(k)]]

\* UserRole(value)
UserRole(value) == CHOOSE role \in Roles : RoleValue(role) = value

\* ItemStatus(value)
ItemStatus(value) ==
    CHOOSE status \in {"AVAILABLE", "CHECKED_OUT", "RESERVED", "MAINTENANCE",
                       "LOST"} : StatusValue(status) = value

\* datetime.fromisoformat(text)
fromisoformat(text) == text[1]

\* the LibraryUser load_data builds from one entry of 'users'
user_from_dict(d) ==
    [name |-> d.name, email |-> d.email, phone |-> d.phone,
     role |-> UserRole(d.role), borrowed_items |-> d.borrowed_items,
     reserved_items |-> d.reserved_items, fines |-> d.fines]

\* the constructor arguments load_data reads for each type
kind_from_dict(type, fields) ==
    IF type = "Magazine"
    THEN [fields EXCEPT !.publication_date = fromisoformat(@)]
    ELSE fields

\* a loader that leaves reserved_by as the constructor made it
item_from_dict_no_queue(d) ==
    [kind |-> d.type, title |-> d.title, location |-> d.location,
     cost |-> d.cost, fields |-> kind_from_dict(d.type, d.fields),
     status |-> ItemStatus(d.status),
     checked_out_to |-> IF d.checked_out_to = JsonNull
                        THEN None ELSE d.checked_out_to[1],
     due_date |-> IF d.due_date # JsonNull
                  THEN fromisoformat(d.due_date) ELSE None,
     reserved_by |-> <<>>]

\* the LibraryItem load_data builds from one entry of 'items'
item_from_dict(d) ==
    [kind |-> d.type, title |-> d.title, location |-> d.location,
     cost |-> d.cost, fields |-> kind_from_dict(d.type, d.fields),
     status |-> ItemStatus(d.status),
     checked_out_to |-> IF d.checked_out_to = JsonNull
                        THEN None ELSE d.checked_out_to[1],
     due_date |-> IF d.due_date # JsonNull
                  THEN fromisoformat(d.due_date) ELSE None,
     reserved_by |-> d.reserved_by]

\* the entry load_data keeps for an id: the dictionary is assigned entry by
\* entry, so of two entries with one id the later one stays
Entry(entries, id) ==
    LET k == CHOOSE k \in DOMAIN entries :
                /\ entries[k].id = id
                /\ \A j \in DOMAIN entries : entries[j].id = id => j <= k
    IN  entries[k]

\* the users dictionary load_data builds from the saved list
load_users(entries) ==
    [id \in {entries[k].id : k \in DOMAIN entries} |->
        user_from_dict(Entry(entries, id))]

\* the items dictionary load_data builds from the saved list
load_items(entries) ==
    [id \in {entries[k].id : k \in DOMAIN entries} |->
        item_from_dict(Entry(entries, id))]

\* a save that writes the dictionaries as they were when the handler began
save_data_before == disk' = Document

\* save_data after the mutations of a handler
save_data == disk' = Document'

(* ------------------------------------------------------- call outcomes *)

\* the handler raises exc(message): nothing was mutated, saved or logged
Raise(exc, message) ==
    /\ last' = [result |-> exc, message |-> message, logged |-> "",
                reserved |-> <<>>]
    /\ UNCHANGED <<users, items, now, disk>>

\* the handler returns normally, its last act the log line of the operation
Return(op) ==
    last' = [result |-> "ok", message |-> "", logged |-> op, reserved |-> <<>>]

(* ------------------------------------------------------ checkout engine *)

\* a guard that only holds back items on loan
is_not_on_loan(item) == item.status # "CHECKED_OUT"

\* a guard that lets a RESERVED item out as well
is_available_or_reserved(item) == item.status \in {"AVAILABLE", "RESERVED"}

\* item.status != ItemStatus.AVAILABLE, negated
is_available(item) == item.status = "AVAILABLE"

\* the three assignments of check_out_item to the item
CheckedOut(item, user_id) ==
    [item EXCEPT !.status = "CHECKED_OUT", !.checked_out_to = user_id,
                 !.due_date = now + get_checkout_duration(item.kind)]

\* a guard that takes a RESERVED item for one on loan
is_checked_out_or_reserved(item) ==
    item.status \in {"CHECKED_OUT", "RESERVED"}

\* item.status != ItemStatus.CHECKED_OUT, negated
is_checked_out(item) == item.status = "CHECKED_OUT"

\* datetime.now() > item.due_date, for an item that has a due date
is_late(item) == item.due_date # None /\ now > item.due_date

\* days late rounded up instead of down
days_late_rounded_up(item) ==
    (now - item.due_date + TicksPerDay - 1) \div TicksPerDay

\* (datetime.now() - item.due_date).days: whole days, rounded down
days_late(item) == (now - item.due_date) \div TicksPerDay

\* the late fee return_item adds to the borrower's fines
late_fee(item) ==
    IF is_late(item) THEN days_late(item) * get_daily_fine(item.kind) ELSE 0

\* a return that forgets to clear the due date
Returned_keeps_due(item) ==
    [item EXCEPT !.status = "AVAILABLE", !.checked_out_to = None]

\* the three assignments of return_item to the item
Returned(item) ==
    [item EXCEPT !.status = "AVAILABLE", !.checked_out_to = None,
                 !.due_date = None]

\* reservation handling that pops the reserver but leaves the status alone
HandleReservations_no_status(item) ==
    IF item.reserved_by # <<>>
    THEN [item EXCEPT !.reserved_by = PopFront(@)]
    ELSE item

\* the reservation handling of return_item, on the item already reset
HandleReservations(item) ==
    IF item.reserved_by # <<>>
    THEN [item EXCEPT !.reserved_by = PopFront(@), !.status = "RESERVED"]
    ELSE item

\* a duplicate check that looks at the front of the queue only
already_reserved_front(user_id, item) ==
    item.reserved_by # <<>> /\ Head(item.reserved_by) = user_id

\* user_id in item.reserved_by
already_reserved(user_id, item) == In(user_id, item.reserved_by)

\* the comparison turned round: only payments below the balance are refused
exceeds_fines_reversed(amount, user) == amount < user.fines

\* amount >= user.fines: paying the exact balance is refused
exceeds_or_equals_fines(amount, user) == amount >= user.fines

\* amount > user.fines
exceeds_fines(amount, user) == amount > user.fines

\* LibrarySystem.add_user: the new user gets a fresh id
add_user(role) ==
    LET id == Cardinality(DOMAIN users) + 1
    IN  /\ users' = [k \in DOMAIN users \cup {id} |->
                        IF k = id THEN NewUser(role) ELSE users[k]]
        /\ UNCHANGED <<items, now>>
        /\ save_data
        /\ Return("add_user")

\* LibrarySystem.add_item, of an item the caller has constructed (its id is
\* the fresh one the constructor drew)
add_item(item) ==
    LET id == Cardinality(DOMAIN items) + 1
    IN  /\ items' = [k \in DOMAIN items \cup {id} |->
                        IF k = id THEN item ELSE items[k]]
        /\ UNCHANGED <<users, now>>
        /\ save_data
        /\ Return("add_item")

\* LibrarySystem.check_out_item
check_out_item(user_id, item_id) ==
    IF user_id \notin DOMAIN users
    THEN Raise("UserNotFoundException", "User not found")
    ELSE IF item_id \notin DOMAIN items
    THEN Raise("LibraryException", "Item not found")
    ELSE IF ~is_available(items[item_id])
    THEN Raise("ItemNotAvailableException", "Item is not available")
    ELSE /\ items' = [items EXCEPT ![item_id] = CheckedOut(@, user_id)]
         /\ users' = [users EXCEPT
                         ![user_id].borrowed_items = Append(@, item_id)]
         /\ UNCHANGED now
         /\ save_data
         /\ Return("check_out_item")

\* a return_item that also takes the item off the list of the reserver it
\* pops from the queue
return_item_clears_reserver(item_id) ==
    IF item_id \notin DOMAIN items
    THEN Raise("LibraryException", "Item not found")
    ELSE IF ~is_checked_out(items[item_id])
    THEN Raise("LibraryException", "Item is not checked out")
    ELSE LET item == items[item_id]
             uid == item.checked_out_to
             paid == IF uid \in DOMAIN users
                     THEN [users EXCEPT
                              ![uid].borrowed_items = Remove(@, item_id),
                              ![uid].fines = @ + late_fee(item)]
                     ELSE users
         IN  /\ users' =
                   IF item.reserved_by # <<>>
                      /\ Head(item.reserved_by) \in DOMAIN users
                   THEN [paid EXCEPT ![Head(item.reserved_by)].reserved_items =
                                        Remove(@, item_id)]
                   ELSE paid
             /\ items' = [items EXCEPT
                             ![item_id] = HandleReservations(Returned(item))]
             /\ UNCHANGED now
             /\ save_data
             /\ Return("return_item")

\* LibrarySystem.return_item
return_item(item_id) ==
    IF item_id \notin DOMAIN items
    THEN Raise("LibraryException", "Item not found")
    ELSE IF ~is_checked_out(items[item_id])
    THEN Raise("LibraryException", "Item is not checked out")
    ELSE LET item == items[item_id]
             uid == item.checked_out_to
         IN  IF uid \in DOMAIN users /\ ~In(item_id, users[uid].borrowed_items)
             THEN Raise("ValueError", "list.remove(x): x not in list")
             ELSE /\ users' =
                        IF uid \in DOMAIN users
                        THEN [users EXCEPT
                                 ![uid].borrowed_items = Remove(@, item_id),
                                 ![uid].fines = @ + late_fee(item)]
                        ELSE users
                  /\ items' = [items EXCEPT
                                  ![item_id] = HandleReservations(Returned(item))]
                  /\ UNCHANGED now
                  /\ save_data
                  /\ last' = [result |-> "ok", message |-> "",
                              logged |-> "return_item",
                              reserved |-> IF item.reserved_by # <<>>
                                           THEN <<item_id, Head(item.reserved_by)>>
                                           ELSE <<>>]

\* LibrarySystem.reserve_item
reserve_item(user_id, item_id) ==
    IF user_id \notin DOMAIN users
    THEN Raise("UserNotFoundException", "User not found")
    ELSE IF item_id \notin DOMAIN items
    THEN Raise("LibraryException", "Item not found")
    ELSE IF already_reserved(user_id, items[item_id])
    THEN Raise("LibraryException", "User has already reserved this item")
    ELSE /\ items' = [items EXCEPT ![item_id].reserved_by = Append(@, user_id)]
         /\ users' = [users EXCEPT
                         ![user_id].reserved_items = Append(@, item_id)]
         /\ UNCHANGED now
         /\ save_data
         /\ Return("reserve_item")

\* a pay_fines that deducts before it checks the amount
pay_fines_deduct_first(user_id, amount) ==
    IF user_id \notin DOMAIN users
    THEN Raise("UserNotFoundException", "User not found")
    ELSE IF exceeds_fines(amount, users[user_id])
    THEN /\ users' = [users EXCEPT ![user_id].fines = @ - amount]
         /\ UNCHANGED <<items, now, disk>>
         /\ last' = [result |-> "LibraryException",
                     message |-> "Payment amount exceeds outstanding fines",
                     logged |-> "", reserved |-> <<>>]
    ELSE /\ users' = [users EXCEPT ![user_id].fines = @ - amount]
         /\ UNCHANGED <<items, now>>
         /\ save_data
         /\ Return("pay_fines")

\* LibrarySystem.pay_fines
pay_fines(user_id, amount) ==
    IF user_id \notin DOMAIN users
    THEN Raise("UserNotFoundException", "User not found")
    ELSE IF exceeds_fines(amount, users[user_id])
    THEN Raise("LibraryException", "Payment amount exceeds outstanding fines")
    ELSE /\ users' = [users EXCEPT ![user_id].fines = @ - amount]
         /\ UNCHANGED <<items, now>>
         /\ save_data
         /\ Return("pay_fines")

\* LibrarySystem() once more, over the file the last one left: load_data
\* fills both dictionaries from the saved document
load_data ==
    /\ users' = load_users(disk.users)
    /\ items' = load_items(disk.items)
    /\ last' = [result |-> "ok", message |-> "", logged |-> "",
                reserved |-> <<>>]
    /\ UNCHANGED <<now, disk>>

\* time passes between two calls: datetime.now() grows by d ticks
Tick(d) ==
    /\ now' = now + d
    /\ UNCHANGED <<users, items, disk, last>>

(* -------------------------------------------------------- specification *)

\* LibrarySystem() on a first run: no file, both dictionaries empty, saved
Init ==
    /\ users = <<>>
    /\ items = <<>>
    /\ now = 0
    /\ disk = [users |-> <<>>, items |-> <<>>]
    /\ last = [result |-> "ok", message |-> "", logged |-> "", reserved |-> <<>>]

\* entities held by the database
Population == Cardinality(DOMAIN users) + Cardinality(DOMAIN items)

\* clock advances between calls: ten and a half days
ClockSteps == {21}

\* kinds added under Spec: within MaxNow a DVD can fall overdue, a Book cannot
\* (nor can a Magazine, which Spec leaves to ClockSpec)
SpecKinds == {"Book", "DVD"}

\* the role of the users added under Spec and ClockSpec
SpecRoles == {"STUDENT"}

\* payment amounts tried against a balance, in cents
Amounts(fines) == {fines, fines + 25}

\* the bounds of the model, as a predicate of the state
Within ==
    /\ now <= MaxNow
    /\ \A u \in DOMAIN users :
          /\ users[u].fines <= MaxFineQuarters * 25
          /\ Len(users[u].reserved_items) <= MaxReserved

\* balance of a user id, 0 for an id that is not a user
FinesOf(u) == IF u \in DOMAIN users THEN users[u].fines ELSE 0

Next ==
    \/ \E role \in SpecRoles : Population < MaxEntities /\ add_user(role)
    \/ \E kind \in SpecKinds :
          Population < MaxEntities /\ add_item(NewItem(kind))
    \/ \E u \in UserIds, i \in ItemIds : check_out_item(u, i)
    \/ \E i \in ItemIds : return_item(i) /\ Within'
    \/ \E u \in UserIds, i \in ItemIds : reserve_item(u, i) /\ Within'
    \/ \E u \in UserIds : \E a \in Amounts(FinesOf(u)) : pay_fines(u, a) /\ Within'
    \/ \E d \in ClockSteps : Tick(d) /\ Within'

Spec == Init /\ [][Next]_vars

(* A single loan on a clock of half days: one user, one item, no limit on  *)
(* the kinds of payment.                                                   *)

\* payment amounts of the single-loan specification, in cents
LoanAmounts(fines) == {-25, 25, fines, fines + 25}

LoanWithin ==
    /\ now <= MaxLoanNow
    /\ \A u \in DOMAIN users : users[u].fines <= MaxFineQuarters * 25

LoanNext ==
    \/ \E role \in SpecRoles : users = <<>> /\ add_user(role)
    \/ \E kind \in Kinds : items = <<>> /\ add_item(NewItem(kind))
    \/ check_out_item(1, 1)
    \/ return_item(1) /\ LoanWithin'
    \/ \E a \in LoanAmounts(FinesOf(1)) : pay_fines(1, a) /\ LoanWithin'
    \/ Tick(1) /\ LoanWithin'

ClockSpec == Init /\ [][LoanNext]_vars

(* The library over several runs: users of every role, items of every kind *)
(* that the caller may have marked MAINTENANCE or LOST before adding them, *)
(* and a new LibrarySystem() that loads what the last one saved.           *)

\* the status attribute of an item handed to add_item
AddedStatuses == {"AVAILABLE", "MAINTENANCE", "LOST"}

RestartNext ==
    \/ \E role \in Roles : Population < MaxRestartEntities /\ add_user(role)
    \/ \E kind \in Kinds, status \in AddedStatuses :
          /\ Population < MaxRestartEntities
          /\ add_item(Marked(NewItem(kind), status))
    \/ \E u \in UserIds, i \in ItemIds : check_out_item(u, i)
    \/ \E i \in ItemIds : return_item(i) /\ Within'
    \/ \E u \in UserIds, i \in ItemIds : reserve_item(u, i) /\ Within'
    \/ \E u \in UserIds : \E a \in Amounts(FinesOf(u)) : pay_fines(u, a) /\ Within'
    \/ \E d \in ClockSteps : Tick(d) /\ Within'
    \/ load_data

RestartSpec == Init /\ [][RestartNext]_vars

(* ---------------------------------------------------------------- claims *)

\* C1: for every item, status is CHECKED_OUT if and only if checked_out_to
\* and due_date are both set, and the two are set or unset together.
C1_StatusMatchesBorrower ==
    \A i \in DOMAIN items :
       /\ (items[i].status = "CHECKED_OUT") <=>
             (items[i].checked_out_to # None /\ items[i].due_date # None)
       /\ (items[i].checked_out_to # None) <=> (items[i].due_date # None)

\* an item is out on loan while another one has come back
C1_Witness ==
    /\ last.logged = "return_item"
    /\ \E i, j \in DOMAIN items :
          items[i].status = "CHECKED_OUT" /\ items[j].status = "AVAILABLE"

\* C2: check_out_item of an existing user and item succeeds when the item is
\* AVAILABLE and raises ItemNotAvailableException when it is not.
C2_CheckOutDecidedByStatus ==
    [][\A u \in DOMAIN users, i \in DOMAIN items :
          check_out_item(u, i) =>
             IF items[i].status = "AVAILABLE"
             THEN /\ last'.result = "ok"
                  /\ items'[i].status = "CHECKED_OUT"
                  /\ items'[i].checked_out_to = u
             ELSE /\ last'.result = "ItemNotAvailableException"
                  /\ items' = items]_vars

\* a user who owes fines has checked out an item that others wait for
C2_Witness ==
    /\ last.logged = "check_out_item"
    /\ \E u \in DOMAIN users, i \in DOMAIN items :
          /\ items[i].checked_out_to = u
          /\ users[u].fines > 0
          /\ items[i].reserved_by # <<>>

\* C3: once return_item has popped reserver A and left the item RESERVED,
\* checked_out_to is null, and a check_out_item(A, item) made in that state
\* succeeds and makes A the borrower.
C3_ReserverCanCheckOut ==
    [][/\ last'.reserved # <<>> =>
             /\ items'[last'.reserved[1]].status = "RESERVED"
             /\ items'[last'.reserved[1]].checked_out_to = None
       /\ (last.reserved # <<>>
             /\ check_out_item(last.reserved[2], last.reserved[1])) =>
             /\ last'.result = "ok"
             /\ items'[last.reserved[1]].status = "CHECKED_OUT"
             /\ items'[last.reserved[1]].checked_out_to = last.reserved[2]]_vars

\* C4: return_item of a CHECKED_OUT item clears borrower and due date, takes
\* the item off the borrower's borrowed_items, and either removes exactly the
\* front of a non-empty queue and sets RESERVED, or sets AVAILABLE.
C4_ReturnEffects ==
    [][\A i \in DOMAIN items :
          (items[i].status = "CHECKED_OUT" /\ return_item(i)) =>
             /\ last'.result = "ok"
             /\ items'[i].checked_out_to = None
             /\ items'[i].due_date = None
             /\ ~In(i, users'[items[i].checked_out_to].borrowed_items)
             /\ IF items[i].reserved_by # <<>>
                THEN /\ items'[i].reserved_by = Tail(items[i].reserved_by)
                     /\ items'[i].status = "RESERVED"
                ELSE /\ items'[i].reserved_by = <<>>
                     /\ items'[i].status = "AVAILABLE"]_vars

\* a return has turned a queue of two into a queue of one
C4_Witness ==
    /\ last.logged = "return_item"
    /\ last.reserved # <<>>
    /\ Len(items[last.reserved[1]].reserved_by) = 1
    /\ items[last.reserved[1]].status = "RESERVED"

\* C5: an item is in a user's borrowed_items if and only if the item is
\* checked out to that user; so no item is borrowed by two users.
C5_BorrowedInSync ==
    /\ \A u \in DOMAIN users, i \in DOMAIN items :
          In(i, users[u].borrowed_items) <=> items[i].checked_out_to = u
    /\ \A u, v \in DOMAIN users, i \in DOMAIN items :
          (In(i, users[u].borrowed_items) /\ In(i, users[v].borrowed_items))
             => u = v

\* one user holds an item that another user has held and returned
C5_Witness ==
    /\ last.logged = "check_out_item"
    /\ \E u, v \in DOMAIN users, i \in DOMAIN items :
          /\ u # v
          /\ In(i, users[u].borrowed_items)
          /\ In(i, users[v].reserved_items)
          /\ users[v].fines > 0

\* C6: an item is in a user's reserved_items if and only if the user is in
\* the item's reserved_by, also after return_item has popped a reserver.
C6_ReservedInSync ==
    \A u \in DOMAIN users, i \in DOMAIN items :
       In(i, users[u].reserved_items) <=> In(u, items[i].reserved_by)

\* C7: of two reserve_item(u, i) calls the second raises LibraryException and
\* adds no reservation, whatever ran in between.  (reserved_items is only
\* ever appended to, by a successful reserve_item: i is in u's list exactly
\* when an earlier reserve_item(u, i) succeeded.)
C7_SecondReserveFails ==
    [][\A u \in DOMAIN users, i \in DOMAIN items :
          (In(i, users[u].reserved_items) /\ reserve_item(u, i)) =>
             /\ last'.result = "LibraryException"
             /\ users' = users
             /\ items' = items]_vars

\* C7 as amended: a reserve_item(u, i) made while u is still in i's queue
\* raises LibraryException and adds no reservation.
C7_ReserveWhileQueuedFails ==
    [][\A u \in DOMAIN users, i \in DOMAIN items :
          (In(u, items[i].reserved_by) /\ reserve_item(u, i)) =>
             /\ last'.result = "LibraryException"
             /\ last'.message = "User has already reserved this item"
             /\ users' = users
             /\ items' = items]_vars

\* a reserver behind another one in the queue was refused a second reservation
C7_Witness ==
    /\ last.message = "User has already reserved this item"
    /\ \E i \in DOMAIN items : Len(items[i].reserved_by) = 2

\* C8: the queue is FIFO: a step leaves reserved_by alone, or is a successful
\* reserve_item that appends the reserver at the back, or is a successful
\* return_item that removes the front entry; a new item has an empty queue.
C8_QueueIsFifo ==
    [][/\ \A i \in DOMAIN items :
             \/ items'[i].reserved_by = items[i].reserved_by
             \/ \E u \in DOMAIN users :
                   /\ reserve_item(u, i)
                   /\ last'.logged = "reserve_item"
                   /\ items'[i].reserved_by = Append(items[i].reserved_by, u)
             \/ /\ return_item(i)
                /\ last'.logged = "return_item"
                /\ items[i].reserved_by # <<>>
                /\ last'.reserved = <<i, Head(items[i].reserved_by)>>
                /\ items'[i].reserved_by = Tail(items[i].reserved_by)
       /\ \A i \in DOMAIN items' \ DOMAIN items :
             items'[i].reserved_by = <<>>]_vars

\* the later of two reservers is left in the queue after a return
C8_Witness ==
    /\ last.logged = "return_item"
    /\ \E i \in DOMAIN items :
          /\ last.reserved = <<i, 2>>
          /\ items[i].reserved_by = <<1>>

\* fine rate per day late, in cents, as the specification tables it
DailyRate(kind) ==
    CASE kind = "Book" -> 50 [] kind = "DVD" -> 100 [] kind = "Magazine" -> 25

\* loan period in days, as the specification tables it
LoanDays(kind) ==
    CASE kind = "Book" -> 21 [] kind = "DVD" -> 7 [] kind = "Magazine" -> 14

\* C9: return_item adds to the borrower's balance the whole days elapsed
\* since due_date, rounded down, times the daily rate of the kind when the
\* return is after due_date, and nothing otherwise; a Book returned 25 days
\* after checkout costs 4 * 0.50 = 2.00.
C9_LateFee ==
    [][\A i \in DOMAIN items :
          (items[i].status = "CHECKED_OUT" /\ return_item(i)) =>
             LET b == items[i].checked_out_to
                 due == items[i].due_date
                 added == users'[b].fines - users[b].fines
                 ticks == now - due
             IN  /\ ticks <= 0 => added = 0
                 /\ ticks > 0 =>
                       \E days \in 0..MaxLoanNow :
                          /\ days * TicksPerDay <= ticks
                          /\ ticks < (days + 1) * TicksPerDay
                          /\ added = days * DailyRate(items[i].kind)
                 /\ (items[i].kind = "Book"
                       /\ ticks = (25 - LoanDays("Book")) * TicksPerDay)
                       => added = 200]_vars

\* a Book checked out at tick 0 came back after 25 days and cost 2.00
C9_Witness ==
    /\ last.logged = "return_item"
    /\ now = 25 * TicksPerDay
    /\ 1 \in DOMAIN items /\ items[1].kind = "Book"
    /\ 1 \in DOMAIN users /\ users[1].fines = 200

\* C10: pay_fines of an existing user raises when amount exceeds the balance
\* and leaves the balance alone; otherwise the balance drops by amount, to 0
\* when amount is the balance.
C10_PayFines ==
    [][\A u \in DOMAIN users : \A a \in LoanAmounts(users[u].fines) :
          pay_fines(u, a) =>
             IF a > users[u].fines
             THEN /\ last'.result = "LibraryException"
                  /\ users' = users
             ELSE /\ last'.result = "ok"
                  /\ users'[u].fines = users[u].fines - a
                  /\ a = users[u].fines => users'[u].fines = 0]_vars

\* a payment was accepted and a positive balance of 1.75 is left
C10_Witness ==
    /\ last.logged = "pay_fines"
    /\ \E u \in DOMAIN users : users[u].fines = 175

\* C11: every user's fine balance is non-negative in every reachable state.
C11_FinesNonNegative == \A u \in DOMAIN users : users[u].fines >= 0

\* a balance raised by a late return has been paid off
C11_Witness ==
    /\ last.logged = "pay_fines"
    /\ 1 \in DOMAIN users /\ users[1].fines = 0
    /\ 1 \in DOMAIN items /\ items[1].kind = "DVD"
    /\ items[1].status = "AVAILABLE" /\ now > get_checkout_duration("DVD")

C13_SavedIsCurrent == disk = Document

\* a late return that also handed the item to a reserver is on disk
C13_Witness ==
    /\ last.logged = "return_item"
    /\ last.reserved # <<>>
    /\ \E k \in DOMAIN disk.users : disk.users[k].fines > 0
    /\ \E k \in DOMAIN disk.items : disk.items[k].status = "reserved"

\* the error kind of a failure, by what went wrong
ErrorKind(message) ==
    CASE message = "User not found" -> "UserNotFound"
      [] message = "Item not found" -> "ItemNotFound"
      [] message = "Item is not available" -> "ItemNotAvailable"
      [] message \in {"Item is not checked out",
                      "User has already reserved this item",
                      "Payment amount exceeds outstanding fines"}
            -> "InvalidOperation"
      [] OTHER -> "none"

\* C15: the four error kinds are reported as distinguishable values: of two
\* failures of different kinds, one after the other, the reported exception
\* classes differ.
C15_KindsDistinguishable ==
    [][(/\ last.result # "ok"
        /\ last'.result # "ok"
        /\ ErrorKind(last.message) # ErrorKind(last'.message))
          => last.result # last'.result]_vars

\* C16: a successful check_out_item sets due_date to now plus the loan period
\* of the kind (Book 21 days, DVD 7, Magazine 14), strictly after now; the
\* daily rates are 0.50, 1.00 and 0.25.
C16_DueDate ==
    [][\A u \in DOMAIN users, i \in DOMAIN items :
          (check_out_item(u, i) /\ last'.result = "ok") =>
             /\ items'[i].due_date =
                   now + LoanDays(items[i].kind) * TicksPerDay
             /\ items'[i].due_date > now
             /\ get_daily_fine(items[i].kind) = DailyRate(items[i].kind)]_vars

\* a Magazine lent at day 3 is due at day 17
C16_Witness ==
    /\ last.logged = "check_out_item"
    /\ now = 3 * TicksPerDay
    /\ 1 \in DOMAIN items /\ items[1].kind = "Magazine"
    /\ items[1].due_date = 17 * TicksPerDay

\* C18: an item with a non-empty reservation queue is not AVAILABLE.
C18_QueuedMeansUnavailable ==
    \A i \in DOMAIN items :
       items[i].reserved_by # <<>> => items[i].status # "AVAILABLE"

\* no entry occurs twice in the list
NoDuplicates(s) == \A j, k \in 1..Len(s) : s[j] = s[k] => j = k

\* C19: no user id occurs twice in an item's reserved_by, no item id twice
\* in a user's borrowed_items or reserved_items.
C19_NoDuplicates ==
    /\ \A i \in DOMAIN items : NoDuplicates(items[i].reserved_by)
    /\ \A u \in DOMAIN users :
          /\ NoDuplicates(users[u].borrowed_items)
          /\ NoDuplicates(users[u].reserved_items)

\* C20: a call that fails leaves users, items and the saved document as they
\* were: every check precedes the first mutation and nothing is saved.
C20_FailureChangesNothing ==
    [][last'.result # "ok" =>
          /\ users' = users
          /\ items' = items
          /\ disk' = disk]_vars

\* an over-sized payment against a positive balance was refused
C20_Witness ==
    /\ last.message = "Payment amount exceeds outstanding fines"
    /\ \E u \in DOMAIN users : users[u].fines > 0

\* C14: saving and loading into an empty database gives back the users and
\* items field for field: what load_data builds from the document save_data
\* writes of the dictionaries in memory is those dictionaries.
C14_RoundTrip ==
    /\ load_users(Document.users) = users
    /\ load_items(Document.items) = items

\* a new LibrarySystem() has loaded a librarian who owes fines and holds a
\* DVD that is also reserved
C14_Witness ==
    /\ last.result = "ok" /\ last.logged = ""
    /\ \E u \in DOMAIN users, i \in DOMAIN items :
          /\ users[u].role = "LIBRARIAN"
          /\ users[u].fines > 0
          /\ items[i].kind = "DVD"
          /\ items[i].checked_out_to = u
          /\ items[i].due_date > now
          /\ items[i].reserved_by # <<>>

\* C17: a step changes the status of an existing item only from AVAILABLE to
\* CHECKED_OUT, in a check_out_item of the item, or from CHECKED_OUT to
\* AVAILABLE or RESERVED, in a return_item of the item; so a RESERVED,
\* MAINTENANCE or LOST item keeps its status.
C17_StatusTransitions ==
    [][\A i \in DOMAIN items :
          /\ \/ items'[i].status = items[i].status
             \/ /\ items[i].status = "AVAILABLE"
                /\ items'[i].status = "CHECKED_OUT"
                /\ \E u \in DOMAIN users : check_out_item(u, i)
             \/ /\ items[i].status = "CHECKED_OUT"
                /\ items'[i].status \in {"AVAILABLE", "RESERVED"}
                /\ return_item(i)
          /\ items[i].status \in {"RESERVED", "MAINTENANCE", "LOST"}
                => items'[i].status = items[i].status]_vars

\* a LOST item has taken a reservation and refused a checkout, still LOST
C17_Witness ==
    /\ last.message = "Item is not available"
    /\ \E i \in DOMAIN items :
          items[i].status = "LOST" /\ items[i].reserved_by # <<>>

\* C21: a pay_fines that succeeds never leaves the balance of the user higher
\* than it was, whatever amount was accepted, zero and negative ones included.
C21_PayNeverRaises ==
    [][\A u \in DOMAIN users : \A a \in LoanAmounts(users[u].fines) :
          pay_fines(u, a) /\ last'.result = "ok"
             => users'[u].fines <= users[u].fines]_vars

\* C22: each call changes only the entities it names: a call that fails
\* nothing, check_out_item(u, i) and reserve_item(u, i) only item i and user
\* u, and no balance;
\* return_item(i) only item i and its borrower, whose balance alone may
\* change, and only when the return is late; pay_fines(u, x) only the
\* balance of u.
C22_Frame ==
    [][/\ last'.result # "ok" => users' = users /\ items' = items
       /\ last'.logged \in {"check_out_item", "reserve_item"} =>
             \A u \in UserIds, i \in ItemIds :
                check_out_item(u, i) \/ reserve_item(u, i) =>
                   /\ DOMAIN users' = DOMAIN users
                   /\ DOMAIN items' = DOMAIN items
                   /\ \A v \in DOMAIN users \ {u} : users'[v] = users[v]
                   /\ \A j \in DOMAIN items \ {i} : items'[j] = items[j]
                   /\ \A v \in DOMAIN users : users'[v].fines = users[v].fines
       /\ last'.logged = "return_item" =>
             \A i \in ItemIds :
                return_item(i) =>
                   /\ DOMAIN users' = DOMAIN users
                   /\ DOMAIN items' = DOMAIN items
                   /\ \A j \in DOMAIN items \ {i} : items'[j] = items[j]
                   /\ \A v \in DOMAIN users :
                         \/ users'[v] = users[v]
                         \/ /\ v = items[i].checked_out_to
                            /\ \/ users'[v].fines = users[v].fines
                               \/ is_late(items[i])
       /\ last'.logged = "pay_fines" =>
             \A u \in UserIds : \A a \in Amounts(FinesOf(u)) :
                pay_fines(u, a) =>
                   /\ items' = items
                   /\ \/ users' = users
                      \/ users' = [users EXCEPT
                                      ![u].fines = users'[u].fines]]_vars

\* a late return has charged the borrower and handed the item to a reserver,
\* whose own record still lists the item
C22_Witness ==
    /\ last.logged = "return_item"
    /\ \E u, v \in DOMAIN users, i \in DOMAIN items :
          /\ u # v
          /\ users[u].fines > 0
          /\ users[u].borrowed_items = <<>>
          /\ items[i].status = "RESERVED"
          /\ users[v].reserved_items = <<i>>

====
